---- MODULE Spec2Model ----
(***************************************************************************)
(* State-machine model of pdf-focus-box: the Index page (annotation store, *)
(* mode selector, file and form state) and the multi-page PDFViewer        *)
(* (draw-box, place-text and drag-annotation gestures).                    *)
(*                                                                         *)
(* Numbers.  Page-space coordinates are JavaScript numbers; the model      *)
(* keeps them exactly as integers counted in 1/U of a PDF unit.  The zoom  *)
(* scale is kept in quarters (4 = 1.0, 6 = 1.5).  The pixel positions, the *)
(* container sizes and the page size are chosen so that every division the *)
(* code performs is exact in these units.                                  *)
(***************************************************************************)
EXTENDS Integers, Sequences, FiniteSets, TLC

\* ------------------------------------------------------------------------
\* Bounds of the model
\* ------------------------------------------------------------------------
MaxBoxes == 2          \* at most this many bounding boxes in the store
MaxAnnotations == 2    \* at most this many text annotations in the store
MaxText == 2           \* longest text buffer typed in a PlacingText session
MaxTime == 2           \* Date.now() runs over 0..MaxTime

\* ------------------------------------------------------------------------
\* Number representation
\* ------------------------------------------------------------------------
U == 2 * 3 * 5                  \* model units per PDF unit
ScaleDen == 2 * 2               \* scale is counted in quarters

Min2(a, b) == IF a <= b THEN a ELSE b
Max2(a, b) == IF a >= b THEN a ELSE b
Abs(a) == IF a >= 0 THEN a ELSE 0 - a

\* optional values (null | v)
None == <<>>
Some(v) == <<v>>
IsSome(o) == Len(o) > 0
Val(o) == o[1]

\* a JavaScript object used as a map, and the empty one ({})
NoValues == [n \in {} |-> None]

\* ------------------------------------------------------------------------
\* Inputs: pointer positions (screen pixels relative to the page element),
\* keys, container sizes, documents
\* ------------------------------------------------------------------------
PixelsX == {0, 4, 9, 10}
PixelsY == {0, 8}
Keys == {"Enter", "Escape", "Backspace", "a", " ", "Shift"}
ClientWidths == {490, 640, 1240}
ClientHeights == {840, 1640}
Files == {1, 2, 3, 4, 5}
Uploads == {1, 3}

\* the documents behind the files: file 1 is a one-page document without a
\* form; file 2 a two-page document with one text field; file 3 a two-page
\* document whose form holds a field of every class of pdf-lib; file 4 a
\* one-page document whose form cannot be read (form.getFields() throws);
\* file 5 a one-page document that the viewer renders and PDFDocument.load
\* refuses (an encrypted document)
DocNumPages(f) == IF f \in {2, 3} THEN 2 ELSE 1
DocPageWidth(f) == 600
DocPageHeight(f) == 800
\* the height of page p of the document (page.getSize().height)
DocPageHeightAt(f, p) == IF p = 1 THEN DocPageHeight(f) ELSE 700
DocLoadable(f) == f # 5
DocFormReadable(f) == f # 4

\* a field as pdf-lib presents it: its class, the rectangle and the page of
\* its first widget (page 0: the widget names no page of the document), and
\* what getText / isChecked / getSelected / getOptions return (text is
\* None where getText() returns undefined; selected is the list of selected
\* options, for a radio group of at most one)
PdfField(name, class, page, x, y, text, checked, selected, options) ==
  [name |-> name, class |-> class, page |-> page,
   rect |-> [x |-> x * U, y |-> y * U, width |-> 4 * U, height |-> 8 * U],
   isReadOnly |-> FALSE, text |-> text, checked |-> checked,
   selected |-> selected, options |-> options]

DocFields(f) ==
  CASE f = 2 ->
         << PdfField("F1", "PDFTextField", 1, 8, 790, None, FALSE, << >>, << >>) >>
    [] f = 3 ->
         << PdfField("name", "PDFTextField", 1, 100, 700, Some("Acme"), FALSE, << >>, << >>),
            PdfField("agree", "PDFCheckBox", 1, 100, 680, None, FALSE, << >>, << >>),
            PdfField("country", "PDFDropdown", 1, 100, 660, None, FALSE,
                     << >>, << "FR", "DE" >>),
            PdfField("size", "PDFRadioGroup", 2, 100, 640, None, FALSE,
                     << >>, << "S", "L" >>),
            PdfField("send", "PDFButton", 2, 100, 620, None, FALSE, << >>, << >>),
            PdfField("langs", "PDFOptionList", 2, 100, 600, None, FALSE,
                     << "en" >>, << "en", "fr" >>),
            PdfField("sig", "PDFSignature", 1, 100, 580, None, FALSE, << >>, << >>) >>
    [] OTHER -> << >>

\* ------------------------------------------------------------------------
\* State
\* ------------------------------------------------------------------------
VARIABLES
  file,                 \* Index: File | null
  boundingBoxes,        \* Index: BoundingBox[]
  activeBoundingBox,    \* Index: string | null
  textAnnotations,      \* Index: TextAnnotation[]
  mode,                 \* Index: 'box' | 'text'
  formFieldsInfo,       \* Index: FormFieldsInfo | null
  formValues,           \* Index: Record<string, any>
  exported,             \* the outcome of the last exportPDFWithAnnotations, if any
  pendingDetect,        \* files whose arrayBuffer().then(detectFormFields) is pending
  docState,             \* react-pdf Document/Page: "none" | "loading" | "loaded" | "rendered"
  numPages,             \* PDFViewer
  scale,                \* PDFViewer, in quarters
  pageWidth,            \* PDFViewer, PDF units
  pageHeight,           \* PDFViewer, PDF units
  isDrawing,            \* PDFViewer
  startPoint,           \* PDFViewer: {x,y} | null
  currentBox,           \* PDFViewer: {x,y,width,height} | null
  activeTextAnnotation, \* PDFViewer: {x,y,text,page} | null
  draggingAnnotation,   \* PDFViewer: string | null
  dragOffset,           \* PDFViewer: {x,y}
  now                   \* the clock read by Date.now()

storeVars == <<boundingBoxes, activeBoundingBox, textAnnotations>>
gestureVars == <<isDrawing, startPoint, currentBox, activeTextAnnotation,
                 draggingAnnotation, dragOffset>>
fileVars == <<file, formFieldsInfo, formValues, exported, pendingDetect, docState,
              numPages>>
pageVars == <<scale, pageWidth, pageHeight>>
vars == <<storeVars, gestureVars, fileVars, pageVars, mode, now>>

Init ==
  /\ file = None
  /\ boundingBoxes = << >>
  /\ activeBoundingBox = None
  /\ textAnnotations = << >>
  /\ mode = "box"
  /\ formFieldsInfo = None
  /\ formValues = NoValues
  /\ exported = None
  /\ pendingDetect = {}
  /\ docState = "none"
  /\ numPages = 0
  /\ scale = ScaleDen
  /\ pageWidth = 0
  /\ pageHeight = 0
  /\ isDrawing = FALSE
  /\ startPoint = None
  /\ currentBox = None
  /\ activeTextAnnotation = None
  /\ draggingAnnotation = None
  /\ dragOffset = [x |-> 0, y |-> 0]
  /\ now = 0

\* The store and the gesture state as one record: the handlers below are
\* functions from this record (and the event) to the record after the event.
Cur ==
  [boundingBoxes |-> boundingBoxes, activeBoundingBox |-> activeBoundingBox,
   textAnnotations |-> textAnnotations,
   isDrawing |-> isDrawing, startPoint |-> startPoint, currentBox |-> currentBox,
   activeTextAnnotation |-> activeTextAnnotation,
   draggingAnnotation |-> draggingAnnotation, dragOffset |-> dragOffset]

\* the state after a handler that returns st
Becomes(st) ==
  /\ boundingBoxes' = st.boundingBoxes
  /\ activeBoundingBox' = st.activeBoundingBox
  /\ textAnnotations' = st.textAnnotations
  /\ isDrawing' = st.isDrawing
  /\ startPoint' = st.startPoint
  /\ currentBox' = st.currentBox
  /\ activeTextAnnotation' = st.activeTextAnnotation
  /\ draggingAnnotation' = st.draggingAnnotation
  /\ dragOffset' = st.dragOffset

\* the caps that keep the store and the buffer finite
WithinBounds(st) ==
  /\ Len(st.boundingBoxes) <= MaxBoxes
  /\ Len(st.textAnnotations) <= MaxAnnotations
  /\ st.activeTextAnnotation # None => Len(Val(st.activeTextAnnotation).text) <= MaxText

\* ------------------------------------------------------------------------
\* Pure helpers of the viewer
\* ------------------------------------------------------------------------

\* the pixel position taken as a page-space position without the division
ToPageUnscaled(px, s) == px * U

\* (e.clientX - rect.left) / scale : screen pixels to page space
ToPage(px, s) == (px * U * ScaleDen) \div s

\* Math.floor(v * 10) / 10, the rounding that always goes down
Floor1(v) == ((10 * v) \div U) * (U \div 10)

\* Math.round(v * 10) / 10 (Math.round rounds half up)
Round1(v) == ((2 * 10 * v + U) \div (2 * U)) * (U \div 10)

\* the preview rectangle of handleMouseMove
PreviewBox(start, cx, cy) ==
  [x |-> Min2(start.x, cx), y |-> Min2(start.y, cy),
   width |-> Abs(cx - start.x), height |-> Abs(cy - start.y)]

\* "Only add if the box has meaningful size"
Threshold == 5
AnySize(box) == box.width >= 0 /\ box.height >= 0
MeaningfulSize(box) == box.width > Threshold * U /\ box.height > Threshold * U

\* the coords of the box committed by handleMouseUp
NewBoxCoords(box) ==
  << Round1(box.x), Round1(box.y),
     Round1(box.x + box.width), Round1(box.y + box.height) >>

\* a box numbered by the count of boxes before it
NewBoxNumberedFromZero(box, t, n) ==
  [id |-> "box-" \o ToString(t), coords |-> NewBoxCoords(box),
   label |-> Some(<< "Box ", ToString(n) >>)]

\* the box committed by handleMouseUp at time t with n boxes in the store
\* (a label is kept as the sequence of the pieces of its text)
NewBox(box, t, n) ==
  [id |-> "box-" \o ToString(t), coords |-> NewBoxCoords(box),
   label |-> Some(<< "Box ", ToString(n + 1) >>)]

\* Math.min(scaleX, scaleY, 1.5) of onPageLoadSuccess
MaxScale == 6
UncappedScale(clientWidth, clientHeight, w, h) ==
  Min2(((clientWidth - 40) * ScaleDen) \div w, ((clientHeight - 40) * ScaleDen) \div h)
OptimalScale(clientWidth, clientHeight, w, h) ==
  Min2(Min2(((clientWidth - 40) * ScaleDen) \div w,
            ((clientHeight - 40) * ScaleDen) \div h), MaxScale)

\* ------------------------------------------------------------------------
\* Index: store operations
\* ------------------------------------------------------------------------
RECURSIVE Filter(_, _)
Filter(seq, drop) ==
  IF seq = << >> THEN << >>
  ELSE IF Head(seq).id = drop THEN Filter(Tail(seq), drop)
       ELSE << Head(seq) >> \o Filter(Tail(seq), drop)

\* handleAddBoundingBox
AddBoundingBox(st, bbox) ==
  [st EXCEPT !.boundingBoxes = Append(@, bbox), !.activeBoundingBox = Some(bbox.id)]

\* a removal that leaves the active pointer alone
RemoveOnlyTheBox(st, id) == [st EXCEPT !.boundingBoxes = Filter(@, id)]

\* handleRemoveBoundingBox
RemoveBoundingBox(st, id) ==
  [st EXCEPT !.boundingBoxes = Filter(@, id),
             !.activeBoundingBox = IF @ = Some(id) THEN None ELSE @]

\* handleAddTextAnnotation
AddTextAnnotation(st, annotation) ==
  [st EXCEPT !.textAnnotations = Append(@, annotation)]

\* handleRemoveTextAnnotation
RemoveTextAnnotation(st, id) ==
  [st EXCEPT !.textAnnotations = Filter(@, id)]

\* a text update that forgets to compare the id
UpdateEveryText(st, id, text) ==
  [st EXCEPT !.textAnnotations = [i \in 1..Len(@) |-> [@[i] EXCEPT !.text = text]]]

\* handleUpdateTextAnnotation
UpdateTextAnnotation(st, id, text) ==
  [st EXCEPT !.textAnnotations =
     [i \in 1..Len(@) |-> IF @[i].id = id THEN [@[i] EXCEPT !.text = text] ELSE @[i]]]

\* handleUpdateTextAnnotationCoordinates
UpdateTextAnnotationCoordinates(st, id, x, y) ==
  [st EXCEPT !.textAnnotations =
     [i \in 1..Len(@) |-> IF @[i].id = id THEN [@[i] EXCEPT !.x = x, !.y = y] ELSE @[i]]]

\* ------------------------------------------------------------------------
\* PDFViewer: hit testing (which element receives a pointer-down)
\* ------------------------------------------------------------------------

\* hit region of a rendered text annotation, in screen pixels
AnnotationHitWidth == 5
AnnotationHitHeight == 5

\* the form-field widgets under the page-space point (mx, my) of page p
\* (FormFieldOverlay.renderField); the overlay takes pointer events only in
\* text mode
FieldsAt(st, p, mx, my) ==
  IF mode = "text" /\ IsSome(formFieldsInfo)
  THEN { i \in 1..Len(Val(formFieldsInfo).fields) :
           LET fld == Val(formFieldsInfo).fields[i]
               screenY == pageHeight * U - fld.rect.y - fld.rect.height
           IN /\ fld.page = p
              /\ fld.rect.x <= mx /\ mx <= fld.rect.x + fld.rect.width
              /\ screenY <= my /\ my <= screenY + fld.rect.height }
  ELSE {}

\* the text annotations under the point (renderTextAnnotations); they are
\* rendered once the page size is known and take pointer events only in
\* text mode
AnnotationsAt(st, p, mx, my) ==
  IF mode = "text" /\ pageWidth # 0 /\ pageHeight # 0
  THEN { i \in 1..Len(st.textAnnotations) :
           LET a == st.textAnnotations[i]
           IN /\ a.page = p
              /\ a.x <= mx /\ mx <= a.x + ToPage(AnnotationHitWidth, scale)
              /\ a.y <= my /\ my <= a.y + ToPage(AnnotationHitHeight, scale) }
  ELSE {}

\* the boxes shown on page pageNumber: {pageNumber === 1 && renderBoundingBoxes()}
RenderBoundingBoxes(boxes, pageNumber) ==
  IF pageNumber = 1 /\ pageWidth # 0 /\ pageHeight # 0 THEN boxes ELSE << >>

\* the annotation being dragged (z-index 1000), if it is among S
Dragged(st, S) == { i \in S : st.draggingAnnotation = Some(st.textAnnotations[i].id) }

\* the topmost of the annotations S: the dragged one, else the one rendered last
Top(st, S) ==
  LET D == IF Dragged(st, S) # {} THEN Dragged(st, S) ELSE S
  IN CHOOSE i \in D : \A j \in D : j <= i

\* the element a pointer-down lands on: the dragged annotation (z-index
\* 1000) over form field widgets (z-index 100) over text annotations
\* (z-index 10) over the base layer
HitTest(st, p, mx, my) ==
  IF Dragged(st, AnnotationsAt(st, p, mx, my)) # {} THEN "annotation"
  ELSE IF FieldsAt(st, p, mx, my) # {} THEN "field"
  ELSE IF AnnotationsAt(st, p, mx, my) # {} THEN "annotation"
  ELSE "canvas"

\* ------------------------------------------------------------------------
\* PDFViewer: pointer handlers of the page
\* ------------------------------------------------------------------------
PagesShown == file # None /\ docState \in {"loaded", "rendered"} /\ numPages > 0

\* handleTextAnnotationMouseDown
HandleTextAnnotationMouseDown(st, a, mx, my) ==
  IF mode # "text" THEN st
  ELSE [st EXCEPT !.draggingAnnotation = Some(a.id),
                  !.dragOffset = [x |-> mx - a.x, y |-> my - a.y]]

\* handleMouseDown
HandleMouseDown(st, p, mx, my) ==
  IF mode = "text"
  THEN [st EXCEPT !.activeTextAnnotation =
                     Some([x |-> mx, y |-> my, text |-> << >>, page |-> p])]
  ELSE [st EXCEPT !.isDrawing = TRUE,
                  !.startPoint = Some([x |-> mx, y |-> my]),
                  !.currentBox = Some([x |-> mx, y |-> my, width |-> 0, height |-> 0])]

\* A pointer-down at pixel (px, py) of page p, routed to the element it
\* hits.  The text-annotation layer ("absolute inset-0", pointer-events auto
\* in text mode) is a sibling of the base layer and has no handler of its
\* own; onLayer says whether the browser puts it over the base layer at the
\* point, which the component leaves to the page's stacking and layout.
PointerDown(st, p, px, py, onLayer) ==
  LET mx == ToPage(px, scale)
      my == ToPage(py, scale)
      tgt == HitTest(st, p, mx, my)
  IN CASE tgt = "field" -> st
       [] tgt = "annotation" ->
            HandleTextAnnotationMouseDown(
              st, st.textAnnotations[Top(st, AnnotationsAt(st, p, mx, my))], mx, my)
       [] tgt = "canvas" ->
            IF mode = "text" /\ onLayer THEN st
            \* onMouseDown={(e) => !draggingAnnotation && handleMouseDown(e, pageNumber)}
            ELSE IF st.draggingAnnotation # None THEN st
            ELSE HandleMouseDown(st, p, mx, my)

MouseDown(p, px, py, onLayer) ==
  /\ PagesShown /\ p \in 1..numPages
  /\ Becomes(PointerDown(Cur, p, px, py, onLayer))
  /\ UNCHANGED <<fileVars, pageVars, mode, now>>

\* handleMouseMove
HandleMouseMove(st, px, py) ==
  IF st.draggingAnnotation # None THEN st
  ELSE IF ~st.isDrawing \/ st.startPoint = None THEN st
  ELSE [st EXCEPT !.currentBox =
          Some(PreviewBox(Val(st.startPoint), ToPage(px, scale), ToPage(py, scale)))]

MouseMove(px, py) ==
  /\ PagesShown
  /\ Becomes(HandleMouseMove(Cur, px, py))
  /\ UNCHANGED <<fileVars, pageVars, mode, now>>

\* handleMouseUp; onAddBoundingBox is passed only in box mode
HandleMouseUp(st) ==
  IF st.draggingAnnotation # None THEN st
  ELSE IF ~st.isDrawing \/ st.currentBox = None \/ mode # "box" THEN st
  ELSE LET added == IF MeaningfulSize(Val(st.currentBox))
                    THEN AddBoundingBox(st, NewBox(Val(st.currentBox), now,
                                                   Len(st.boundingBoxes)))
                    ELSE st
       IN [added EXCEPT !.isDrawing = FALSE, !.startPoint = None, !.currentBox = None]

\* pointer-up over the base layer
MouseUp ==
  /\ PagesShown
  /\ WithinBounds(HandleMouseUp(Cur))
  /\ Becomes(HandleMouseUp(Cur))
  /\ UNCHANGED <<fileVars, pageVars, mode, now>>

\* a base layer without a handler for the leaving pointer
LeaveIgnored(st) == st

\* onMouseLeave={!draggingAnnotation ? handleMouseUp : undefined}
HandleMouseLeave(st) ==
  IF st.draggingAnnotation # None THEN st ELSE HandleMouseUp(st)

\* the pointer leaves the base layer
MouseLeave ==
  /\ PagesShown
  /\ WithinBounds(HandleMouseLeave(Cur))
  /\ Becomes(HandleMouseLeave(Cur))
  /\ UNCHANGED <<fileVars, pageVars, mode, now>>

\* ------------------------------------------------------------------------
\* PDFViewer: typing (PlacingText)
\* ------------------------------------------------------------------------
IsWhitespace(c) == c = " "

RECURSIVE TrimStart(_)
TrimStart(t) ==
  IF t = << >> THEN << >>
  ELSE IF IsWhitespace(Head(t)) THEN TrimStart(Tail(t)) ELSE t

RECURSIVE TrimEnd(_)
TrimEnd(t) ==
  IF t = << >> THEN << >>
  ELSE IF IsWhitespace(t[Len(t)]) THEN TrimEnd(SubSeq(t, 1, Len(t) - 1)) ELSE t

\* the text as typed
Untrimmed(t) == t

\* String.prototype.trim
Trim(t) == TrimEnd(TrimStart(t))

\* text.slice(0, -1)
DropLast(t) == IF t = << >> THEN << >> ELSE SubSeq(t, 1, Len(t) - 1)

\* e.key.length === 1
IsCharKey(k) == Len(k) = 1

\* the annotation committed by Enter at time t
DefaultFontSize == 14
NewAnnotation(active, t) ==
  [id |-> "text-" \o ToString(t), x |-> active.x, y |-> active.y, text |-> active.text,
   fontSize |-> DefaultFontSize, page |-> active.page]

\* handleKeyDown
HandleKeyDown(st, k) ==
  IF st.activeTextAnnotation = None THEN st
  ELSE LET active == Val(st.activeTextAnnotation) IN
       CASE k = "Enter" ->
              [(IF Trim(active.text) # << >>
                THEN AddTextAnnotation(st, NewAnnotation(active, now))
                ELSE st) EXCEPT !.activeTextAnnotation = None]
         [] k = "Escape" ->
              [st EXCEPT !.activeTextAnnotation = None]
         [] k = "Backspace" ->
              [st EXCEPT !.activeTextAnnotation =
                           Some([active EXCEPT !.text = DropLast(active.text)])]
         [] k \notin {"Enter", "Escape", "Backspace"} /\ IsCharKey(k) ->
              [st EXCEPT !.activeTextAnnotation =
                           Some([active EXCEPT !.text = Append(active.text, k)])]
         [] OTHER -> st

\* a key pressed anywhere in the window
KeyDown(k) ==
  /\ WithinBounds(HandleKeyDown(Cur, k))
  /\ Becomes(HandleKeyDown(Cur, k))
  /\ UNCHANGED <<fileVars, pageVars, mode, now>>

\* ------------------------------------------------------------------------
\* PDFViewer: dragging a text annotation (document-level listeners)
\* ------------------------------------------------------------------------
\* textAnnotations.find(a => a.id === id): index of the first match, 0 if none
Find(st, id) ==
  IF \E i \in 1..Len(st.textAnnotations) : st.textAnnotations[i].id = id
  THEN CHOOSE i \in 1..Len(st.textAnnotations) :
         /\ st.textAnnotations[i].id = id
         /\ \A j \in 1..(i - 1) : st.textAnnotations[j].id # id
  ELSE 0

\* newX = currentX - dragOffset.x
DragPosition(current, offset) == current - offset

\* handleDocumentMouseMove; (px, py) is the pointer relative to the page
\* element of the dragged annotation
HandleDocumentMouseMove(st, px, py) ==
  IF st.draggingAnnotation = None THEN st
  ELSE IF Find(st, Val(st.draggingAnnotation)) = 0 THEN st
  ELSE UpdateTextAnnotationCoordinates(st, Val(st.draggingAnnotation),
         DragPosition(ToPage(px, scale), st.dragOffset.x),
         DragPosition(ToPage(py, scale), st.dragOffset.y))

DocumentMouseMove(px, py) ==
  /\ Becomes(HandleDocumentMouseMove(Cur, px, py))
  /\ UNCHANGED <<fileVars, pageVars, mode, now>>

\* handleDocumentMouseUp
HandleDocumentMouseUp(st) ==
  IF st.draggingAnnotation = None THEN st
  ELSE [st EXCEPT !.draggingAnnotation = None, !.dragOffset = [x |-> 0, y |-> 0]]

DocumentMouseUp ==
  /\ Becomes(HandleDocumentMouseUp(Cur))
  /\ UNCHANGED <<fileVars, pageVars, mode, now>>

\* ------------------------------------------------------------------------
\* Index: removals and selection (ElementsPanel rows)
\* ------------------------------------------------------------------------
BoxIds == { boundingBoxes[i].id : i \in 1..Len(boundingBoxes) }
AnnotationIds == { textAnnotations[i].id : i \in 1..Len(textAnnotations) }

RemoveBox(id) ==
  /\ id \in BoxIds
  /\ Becomes(RemoveBoundingBox(Cur, id))
  /\ UNCHANGED <<fileVars, pageVars, mode, now>>

\* onSetActiveBoundingBox (a click on a box row)
SetActiveBoundingBox(id) ==
  /\ id \in BoxIds
  /\ activeBoundingBox' = Some(id)
  /\ UNCHANGED <<boundingBoxes, textAnnotations, gestureVars, fileVars, pageVars, mode, now>>

RemoveAnnotation(id) ==
  /\ id \in AnnotationIds
  /\ Becomes(RemoveTextAnnotation(Cur, id))
  /\ UNCHANGED <<fileVars, pageVars, mode, now>>

\* a caller of handleUpdateTextAnnotation replaces the text of an annotation
UpdateText(id, text) ==
  /\ id \in AnnotationIds
  /\ Becomes(UpdateTextAnnotation(Cur, id, text))
  /\ UNCHANGED <<fileVars, pageVars, mode, now>>

\* ------------------------------------------------------------------------
\* BoundingBoxForm: manual coordinates
\* ------------------------------------------------------------------------
Digits == <<"0", "1", "2", "3", "4", "5", "6", "7", "8", "9">>
IsDigit(c) == \E d \in 1..10 : Digits[d] = c
DigitValue(c) == (CHOOSE d \in 1..10 : Digits[d] = c) - 1

\* the value of the longest prefix of digits, continuing from acc
RECURSIVE DigitPrefix(_, _)
DigitPrefix(t, acc) ==
  IF t = << >> \/ ~IsDigit(Head(t)) THEN acc
  ELSE DigitPrefix(Tail(t), 10 * acc + DigitValue(Head(t)))

\* parseInt(t): leading white space, an optional sign, then digits up to the
\* first other character; NaN when no digit is found
ParseInt(t) ==
  LET u == TrimStart(t)
      neg == u # << >> /\ Head(u) = "-"
      v == IF u # << >> /\ Head(u) \in {"-", "+"} THEN Tail(u) ELSE u
  IN IF v = << >> \/ ~IsDigit(Head(v))
     THEN [nan |-> TRUE, n |-> 0]
     ELSE [nan |-> FALSE, n |-> IF neg THEN 0 - DigitPrefix(v, 0) ELSE DigitPrefix(v, 0)]

\* what the user types in the four coordinate inputs and in the label input
CoordinateForms ==
  { << <<"3">>, <<"3">>, <<"8", ".", "5">>, <<"1", "2">> >>,     \* a proper box
    << << >>, <<"3">>, <<"8">>, <<"8">> >>,                     \* an empty input
    << <<"3">>, <<"-">>, <<"8">>, <<"8">> >>,                   \* no digits
    << <<"8">>, <<"3">>, <<"3">>, <<"8">> >>,                   \* x1 > x2
    << <<"3">>, <<"8">>, <<"8">>, <<"8">> >>,                   \* y1 = y2
    << <<"-", "3">>, <<"3">>, <<" ", "8">>, <<"1", "2">> >> }   \* a sign, a blank
LabelTexts == { << >>, <<" ">>, <<"L">> }

\* the first validation of handleSubmit alone
RejectsNaN(c) == \E i \in 1..4 : c[i].nan

\* the two validations of handleSubmit
FormRejects(c) ==
  \/ \E i \in 1..4 : c[i].nan
  \/ c[1].n >= c[3].n \/ c[2].n >= c[4].n

\* the box built by handleSubmit at time t
FormBox(c, label, t) ==
  [id |-> ToString(t),
   coords |-> << c[1].n * U, c[2].n * U, c[3].n * U, c[4].n * U >>,
   label |-> IF Trim(label) = << >> THEN None ELSE Some(Trim(label))]

\* BoundingBoxForm.handleSubmit
HandleSubmit(st, texts, label) ==
  LET c == << ParseInt(texts[1]), ParseInt(texts[2]), ParseInt(texts[3]), ParseInt(texts[4]) >>
  IN IF FormRejects(c) THEN st ELSE AddBoundingBox(st, FormBox(c, label, now))

SubmitBoundingBoxForm(texts, label) ==
  /\ WithinBounds(HandleSubmit(Cur, texts, label))
  /\ Becomes(HandleSubmit(Cur, texts, label))
  /\ UNCHANGED <<fileVars, pageVars, mode, now>>

\* ------------------------------------------------------------------------
\* Files, loading and form introspection
\* ------------------------------------------------------------------------

\* FileUpload.handleFileChange with a valid PDF, then the file effect of Index
SelectFile(f) ==
  /\ file = None
  /\ file' = Some(f)
  /\ pendingDetect' = pendingDetect \cup {f}
  /\ docState' = "loading"
  /\ UNCHANGED <<storeVars, gestureVars, formFieldsInfo, formValues, exported, numPages,
                 pageVars,
                 mode, now>>

\* FileUpload.handleRemoveFile, then the file effect of Index
RemoveFile ==
  /\ file # None
  /\ file' = None
  /\ formFieldsInfo' = None
  /\ formValues' = NoValues
  /\ docState' = "none"
  /\ UNCHANGED <<storeVars, gestureVars, exported, pendingDetect, numPages, pageVars, mode,
                 now>>

\* onDocumentLoadSuccess
DocumentLoadSuccess ==
  /\ docState = "loading"
  /\ docState' = "loaded"
  /\ numPages' = DocNumPages(Val(file))
  /\ UNCHANGED <<storeVars, gestureVars, file, formFieldsInfo, formValues, exported,
                 pendingDetect,
                 pageVars, mode, now>>

\* onPageLoadSuccess, called for page 1 only
PageLoadSuccess(clientWidth, clientHeight) ==
  /\ docState = "loaded"
  /\ docState' = "rendered"
  /\ pageWidth' = DocPageWidth(Val(file))
  /\ pageHeight' = DocPageHeight(Val(file))
  /\ scale' = OptimalScale(clientWidth, clientHeight,
                           DocPageWidth(Val(file)), DocPageHeight(Val(file)))
  /\ UNCHANGED <<storeVars, gestureVars, file, formFieldsInfo, formValues, exported,
                 pendingDetect,
                 numPages, mode, now>>

\* form values as JavaScript values: a string, a boolean or an array of strings
StringValue(str) == [kind |-> "string", s |-> str, b |-> FALSE, a |-> << >>]
BooleanValue(bool) == [kind |-> "boolean", s |-> "", b |-> bool, a |-> << >>]
ArrayValue(arr) == [kind |-> "array", s |-> "", b |-> FALSE, a |-> arr]

\* detectFormFields, the type of a field: the default 'text' stays where no
\* instanceof test matches
FieldType(fld) ==
  CASE fld.class = "PDFCheckBox" -> "checkbox"
    [] fld.class = "PDFDropdown" -> "dropdown"
    [] fld.class = "PDFRadioGroup" -> "radio"
    [] fld.class = "PDFButton" -> "button"
    [] fld.class = "PDFOptionList" -> "option-list"
    [] OTHER -> "text"

\* detectFormFields, the entry of formValues written for a field, if any
FieldValue(fld) ==
  CASE fld.class = "PDFTextField" ->
         Some(StringValue(IF IsSome(fld.text) THEN Val(fld.text) ELSE ""))
    [] fld.class = "PDFCheckBox" -> Some(BooleanValue(fld.checked))
    [] fld.class = "PDFDropdown" -> Some(ArrayValue(fld.selected))
    [] fld.class = "PDFRadioGroup" ->
         Some(StringValue(IF fld.selected # << >> THEN fld.selected[1] ELSE ""))
    [] fld.class = "PDFOptionList" -> Some(ArrayValue(fld.selected))
    [] OTHER -> None

\* detectFormFields, the descriptor pushed for a field
FieldInfo(fld) ==
  [name |-> fld.name, type |-> FieldType(fld), page |-> fld.page, rect |-> fld.rect,
   isReadOnly |-> fld.isReadOnly, options |-> fld.options]

\* the object formValues after the loop over fields: the last write to a
\* name is the one that stays
ValuesOf(fields) ==
  LET written == { i \in 1..Len(fields) : IsSome(FieldValue(fields[i])) }
      last(n) == CHOOSE i \in written :
                   /\ fields[i].name = n
                   /\ \A j \in written : fields[j].name = n => j <= i
  IN [n \in { fields[i].name : i \in written } |-> Val(FieldValue(fields[last(n)]))]

NoFormFields == [hasFormFields |-> FALSE, fields |-> << >>, formValues |-> NoValues]

\* the settled promise of an async function
Fulfilled(v) == [state |-> "fulfilled", value |-> v]
Rejected == [state |-> "rejected", value |-> NoFormFields]

\* detectFormFields without its catch block
DetectFieldsUncaught(loadable, readable, fields) ==
  IF ~loadable \/ ~readable THEN Rejected
  ELSE IF Len(fields) = 0 THEN Fulfilled(NoFormFields)
  ELSE Fulfilled([hasFormFields |-> TRUE,
                  fields |-> [i \in 1..Len(fields) |-> FieldInfo(fields[i])],
                  formValues |-> ValuesOf(fields)])

\* detectFormFields, applied to a document that PDFDocument.load accepts or
\* not (loadable), whose form can be read or not (readable), and that holds
\* the given fields: an exception inside the try block ends in the catch
DetectFields(loadable, readable, fields) ==
  IF ~loadable \/ ~readable THEN Fulfilled(NoFormFields)
  ELSE IF Len(fields) = 0 THEN Fulfilled(NoFormFields)
  ELSE Fulfilled([hasFormFields |-> TRUE,
                  fields |-> [i \in 1..Len(fields) |-> FieldInfo(fields[i])],
                  formValues |-> ValuesOf(fields)])

\* detectFormFields on the bytes of file f
DetectFormFields(f) == DetectFields(DocLoadable(f), DocFormReadable(f), DocFields(f))

\* the promise of the file effect settles; its then-callback runs when the
\* promise is fulfilled
FormFieldsDetected(f) ==
  /\ f \in pendingDetect
  /\ pendingDetect' = pendingDetect \ {f}
  /\ LET settled == DetectFormFields(f) IN
       IF settled.state = "fulfilled"
       THEN /\ formFieldsInfo' = Some(settled.value)
            /\ formValues' = IF settled.value.hasFormFields
                             THEN settled.value.formValues
                             ELSE formValues
       ELSE UNCHANGED <<formFieldsInfo, formValues>>
  /\ UNCHANGED <<storeVars, gestureVars, file, exported, docState, numPages, pageVars,
                 mode, now>>

\* the files a user can pick in the file dialog: a document, the declared
\* type and the size in bytes
MaxFileSize == 50 * 1024 * 1024
FileTypes == {"application/pdf", "image/png", ""}
FileSizes == {0, MaxFileSize - 1, MaxFileSize, MaxFileSize + 1}
Selections == [doc : Uploads, type : FileTypes, size : FileSizes]

\* FileUpload.handleFileChange: the checks on the selected file
AcceptsBelowLimit(sel) == sel.type = "application/pdf" /\ sel.size < MaxFileSize
Accepts(sel) == ~(sel.type # "application/pdf") /\ ~(sel.size > MaxFileSize)

\* FileUpload.handleFileChange: the file handed to onFileSelect, if any, and
\* the notification shown
HandleFileChange(cur, sel) ==
  IF Accepts(sel)
  THEN [file |-> Some(sel.doc), toast |-> "success"]
  ELSE [file |-> cur, toast |-> "error"]

\* a file is picked in the dialog opened by the upload button
FileChange(sel) ==
  /\ file = None
  /\ IF HandleFileChange(file, sel).file # file
     THEN SelectFile(sel.doc)
     ELSE UNCHANGED vars

\* ------------------------------------------------------------------------
\* Form field overlay
\* ------------------------------------------------------------------------

\* the options at the positions S, in the order of the list
RECURSIVE Selected(_, _)
Selected(options, S) ==
  IF options = << >> THEN << >>
  ELSE (IF 1 \in S THEN << Head(options) >> ELSE << >>)
       \o Selected(Tail(options), { i - 1 : i \in S \ {1} })

\* what a user types into a text input
TextInputs == {"Acme Corp", "Ω"}

\* FormFieldOverlay.renderField: the values the widget of a field hands to
\* handleChange (a text input its string, a checkbox its state, a dropdown
\* and a radio group the chosen option, a multiple select the list of the
\* selected options; a button and an unknown type nothing)
WidgetValues(field) ==
  CASE field.type = "text" -> { StringValue(t) : t \in TextInputs }
    [] field.type = "checkbox" -> { BooleanValue(b) : b \in BOOLEAN }
    [] field.type \in {"dropdown", "radio"} ->
         { StringValue(field.options[i]) : i \in 1..Len(field.options) }
    [] field.type = "option-list" ->
         { ArrayValue(Selected(field.options, S)) : S \in SUBSET (1..Len(field.options)) }
    [] OTHER -> {}

\* the descriptors the overlay renders a widget for, on the pages shown
RenderedFields ==
  IF IsSome(formFieldsInfo) /\ PagesShown
  THEN { fld \in { Val(formFieldsInfo).fields[i] :
                     i \in 1..Len(Val(formFieldsInfo).fields) } :
           fld.page \in 1..numPages }
  ELSE {}

\* onFormValueChange of Index: setFormValues(prev => ({...prev, [name]: value}))
SetFormValue(values, name, value) ==
  [n \in DOMAIN values \cup {name} |-> IF n = name THEN value ELSE values[n]]

\* FormFieldOverlay.handleChange on the widget of a field; the widgets are
\* enabled in text mode, for fields that are not read-only
FormValueChange(field, value) ==
  /\ mode = "text"
  /\ field \in RenderedFields
  /\ ~field.isReadOnly
  /\ value \in WidgetValues(field)
  /\ formValues' = SetFormValue(formValues, field.name, value)
  /\ UNCHANGED <<storeVars, gestureVars, file, formFieldsInfo, exported, pendingDetect,
                 docState, numPages, pageVars, mode, now>>

\* ------------------------------------------------------------------------
\* Export
\* ------------------------------------------------------------------------

\* page.drawText and page.drawRectangle calls, in the order they are made
DrawText(p, x, y, size, text, color) ==
  [op |-> "text", page |-> p, x |-> x, y |-> y, width |-> 0, height |-> 0,
   size |-> size, text |-> text, color |-> color]
DrawRectangle(p, x, y, width, height) ==
  [op |-> "rectangle", page |-> p, x |-> x, y |-> y, width |-> width, height |-> height,
   size |-> 0, text |-> << >>, color |-> "blue"]

\* the offset and the size of a box label
LabelOffset == 5
LabelSize == 10

\* exportPDFWithAnnotations, the textAnnotations.forEach loop on document f
RECURSIVE TextDraws(_, _)
TextDraws(f, annotations) ==
  IF annotations = << >> THEN << >>
  ELSE LET annotation == Head(annotations)
           pageIndex == annotation.page - 1
           height == DocPageHeightAt(f, annotation.page) * U
       IN (IF pageIndex >= 0 /\ pageIndex < DocNumPages(f)
           THEN << DrawText(annotation.page, annotation.x, height - annotation.y,
                            annotation.fontSize, annotation.text, "black") >>
           ELSE << >>)
          \o TextDraws(f, Tail(annotations))

\* a box loop that converts the corners without normalising the rectangle
RECURSIVE BoxDrawsFromFirstCorner(_, _)
BoxDrawsFromFirstCorner(f, boxes) ==
  IF boxes = << >> THEN << >>
  ELSE LET bbox == Head(boxes)
           height == DocPageHeightAt(f, 1) * U
           pdfY1 == height - bbox.coords[2]
           pdfY2 == height - bbox.coords[4]
       IN << DrawRectangle(1, bbox.coords[1], pdfY1,
                           bbox.coords[3] - bbox.coords[1], pdfY2 - pdfY1) >>
          \o (IF IsSome(bbox.label) /\ Val(bbox.label) # << >>
              THEN << DrawText(1, bbox.coords[1], pdfY1 + LabelOffset * U,
                               LabelSize, Val(bbox.label), "blue") >>
              ELSE << >>)
          \o BoxDrawsFromFirstCorner(f, Tail(boxes))

\* exportPDFWithAnnotations, the boundingBoxes.forEach loop on document f
RECURSIVE BoxDraws(_, _)
BoxDraws(f, boxes) ==
  IF boxes = << >> THEN << >>
  ELSE LET bbox == Head(boxes)
           height == DocPageHeightAt(f, 1) * U
           pdfY1 == height - bbox.coords[2]
           pdfY2 == height - bbox.coords[4]
       IN << DrawRectangle(1, bbox.coords[1], Min2(pdfY1, pdfY2),
                           bbox.coords[3] - bbox.coords[1], Abs(pdfY2 - pdfY1)) >>
          \o (IF IsSome(bbox.label) /\ Val(bbox.label) # << >>
              THEN << DrawText(1, bbox.coords[1], Max2(pdfY1, pdfY2) + LabelOffset * U,
                               LabelSize, Val(bbox.label), "blue") >>
              ELSE << >>)
          \o BoxDraws(f, Tail(boxes))

IsSubsequenceOf(arr, options) ==
  \A i \in 1..Len(arr) : \E j \in 1..Len(options) : arr[i] = options[j]

\* exportPDFWithAnnotations, the branch of the form loop taken for a field
\* and a value: setText, check / uncheck and select of pdf-lib (select of a
\* radio group or an option list throws on a value that is no option, and
\* the write is skipped)
WriteField(fld, value) ==
  CASE fld.class = "PDFTextField" /\ value.kind = "string" ->
         [fld EXCEPT !.text = IF value.s = "" THEN None ELSE Some(value.s)]
    [] fld.class = "PDFCheckBox" /\ value.kind = "boolean" ->
         [fld EXCEPT !.checked = value.b]
    [] fld.class = "PDFDropdown" /\ value.kind = "array" /\ Len(value.a) > 0 ->
         [fld EXCEPT !.selected = value.a]
    [] fld.class = "PDFDropdown" /\ value.kind = "string" ->
         [fld EXCEPT !.selected = << value.s >>]
    [] fld.class = "PDFRadioGroup" /\ value.kind = "string"
         /\ IsSubsequenceOf(<< value.s >>, fld.options) ->
         [fld EXCEPT !.selected = << value.s >>]
    [] fld.class = "PDFOptionList" /\ value.kind = "array"
         /\ IsSubsequenceOf(value.a, fld.options) ->
         [fld EXCEPT !.selected = value.a]
    [] OTHER -> fld

\* the index of the field form.getField(name) returns, 0 where it throws
\* (no field of that name, or a form that cannot be read)
GetField(readable, fields, name) ==
  IF readable /\ \E i \in 1..Len(fields) : fields[i].name = name
  THEN CHOOSE i \in 1..Len(fields) :
         fields[i].name = name /\ \A j \in 1..(i - 1) : fields[j].name # name
  ELSE 0

\* the write of one entry throws inside the inner try block: getField
\* throws, or select is given a value that is no option of the field
WriteThrows(readable, fields, name, value) ==
  LET i == GetField(readable, fields, name) IN
    \/ i = 0
    \/ /\ i # 0
       /\ \/ /\ fields[i].class = "PDFRadioGroup" /\ value.kind = "string"
             /\ ~IsSubsequenceOf(<< value.s >>, fields[i].options)
          \/ /\ fields[i].class = "PDFOptionList" /\ value.kind = "array"
             /\ ~IsSubsequenceOf(value.a, fields[i].options)

\* exportPDFWithAnnotations, the form loop: the fields of the document after
\* it (an entry whose write throws is skipped with a warning)
WriteValues(readable, fields, values) ==
  [i \in 1..Len(fields) |->
     IF fields[i].name \in DOMAIN values /\ GetField(readable, fields, fields[i].name) = i
     THEN WriteField(fields[i], values[fields[i].name])
     ELSE fields[i]]

\* the characters among the inputs that the WinAnsi encoding of the
\* standard font (Helvetica) lacks: drawText throws on them, and so does
\* the appearance update of a text field in pdfDoc.save()
Unencodable == {"Ω"}
Encodable(text) == \A i \in 1..Len(text) : text[i] \notin Unencodable

\* every page.drawText of the two loops succeeds
DrawsSucceed(draws) ==
  \A i \in 1..Len(draws) : draws[i].op = "text" => Encodable(draws[i].text)

\* pdfDoc.save() succeeds: the text fields set by the form loop can be laid
\* out in the standard font
SaveSucceeds(readable, fields, values) ==
  \A n \in DOMAIN values :
    LET i == GetField(readable, fields, n) IN
      (i # 0 /\ fields[i].class = "PDFTextField" /\ values[n].kind = "string")
        => values[n].s \notin Unencodable

\* file.name
FileName(f) == "document-" \o ToString(f) \o ".pdf"

\* a catch block that still hands out the document built so far
ExportFailedOffering(f) ==
  [ok |-> FALSE, doc |-> f, fields |-> << >>, draws |-> << >>,
   downloads |-> << "annotated_" \o FileName(f) >>, alert |-> TRUE]

\* the catch block of exportPDFWithAnnotations: the alert, and no download
ExportFailed(f) ==
  [ok |-> FALSE, doc |-> f, fields |-> << >>, draws |-> << >>, downloads |-> << >>,
   alert |-> TRUE]

\* the end of the try block: the document (its form fields and what was
\* drawn on its pages) is offered for download
ExportSaved(f, fields, draws) ==
  [ok |-> TRUE, doc |-> f, fields |-> fields, draws |-> draws,
   downloads |-> << "annotated_" \o FileName(f) >>, alert |-> FALSE]

\* an export whose form loop has no try block of its own: an entry whose
\* write throws ends the export in the catch block
ExportWithoutInnerCatch(f, annotations, boxes, values) ==
  LET fields == WriteValues(DocFormReadable(f), DocFields(f), values)
      draws == TextDraws(f, annotations) \o BoxDraws(f, boxes)
  IN IF /\ DocLoadable(f)
        /\ \A n \in DOMAIN values :
             ~WriteThrows(DocFormReadable(f), DocFields(f), n, values[n])
        /\ DrawsSucceed(draws)
        /\ SaveSucceeds(DocFormReadable(f), DocFields(f), values)
     THEN ExportSaved(f, fields, draws)
     ELSE ExportFailed(f)

\* exportPDFWithAnnotations: load, form loop, text loop, box loop, save and
\* download inside one try block
ExportPDFWithAnnotations(f, annotations, boxes, values) ==
  LET fields == WriteValues(DocFormReadable(f), DocFields(f), values)
      draws == TextDraws(f, annotations) \o BoxDraws(f, boxes)
  IN IF /\ DocLoadable(f)
        /\ DrawsSucceed(draws)
        /\ SaveSucceeds(DocFormReadable(f), DocFields(f), values)
     THEN ExportSaved(f, fields, draws)
     ELSE ExportFailed(f)

\* Index.handleExportPDF (the export button of the elements panel):
\* if (!file) return
ExportPDF ==
  IF file = None
  THEN UNCHANGED vars
  ELSE /\ exported' = Some(ExportPDFWithAnnotations(Val(file), textAnnotations,
                                                    boundingBoxes, formValues))
       /\ UNCHANGED <<storeVars, gestureVars, file, formFieldsInfo, formValues,
                      pendingDetect, docState, numPages, pageVars, mode, now>>

\* the mode toggle of Index
SetMode(m) ==
  /\ mode' = m
  /\ UNCHANGED <<storeVars, gestureVars, fileVars, pageVars, now>>

\* time passes between two events
Tick ==
  /\ now < MaxTime
  /\ now' = now + 1
  /\ UNCHANGED <<storeVars, gestureVars, fileVars, pageVars, mode>>

\* ------------------------------------------------------------------------
\* Specifications
\* ------------------------------------------------------------------------
Modes == {"box", "text"}
Pages == 1..2

\* a document is selected, loaded and its first page rendered
Load(f) ==
  \/ SelectFile(f)
  \/ DocumentLoadSuccess
  \/ \E w \in ClientWidths, h \in ClientHeights : PageLoadSuccess(w, h)

\* the same in a container that shows the page at scale 1.0
LoadFit(f) ==
  \/ SelectFile(f)
  \/ DocumentLoadSuccess
  \/ PageLoadSuccess(640, 840)

Rendered == docState = "rendered"

\* The draw-box gestures on the rendered two-page document: the
\* pointer-downs are those of box mode, so no text session and no text
\* annotation exists.
DrawNext ==
  \/ Load(2)
  \/ \E m \in Modes : SetMode(m)
  \/ \E p \in Pages, px \in PixelsX, py \in PixelsY :
       Rendered /\ mode = "box" /\ MouseDown(p, px, py, FALSE)
  \/ \E px \in PixelsX, py \in PixelsY : Rendered /\ MouseMove(px, py)
  \/ Rendered /\ MouseUp
  \/ Rendered /\ MouseLeave
  \/ \E id \in BoxIds : RemoveBox(id)

SpecDraw == Init /\ [][DrawNext]_vars

\* draw gestures that end when the pointer leaves the page; the pointer-up
\* that follows outside the page, if it is delivered at all, finds no session
LeaveNext ==
  \/ Load(2)
  \/ \E m \in Modes : SetMode(m)
  \/ \E p \in Pages, px \in PixelsX, py \in PixelsY :
       Rendered /\ mode = "box" /\ MouseDown(p, px, py, FALSE)
  \/ \E px \in PixelsX, py \in PixelsY : Rendered /\ MouseMove(px, py)
  \/ Rendered /\ MouseLeave
  \/ Rendered /\ ~isDrawing /\ MouseUp
  \/ \E id \in BoxIds : RemoveBox(id)

SpecLeave == Init /\ [][LeaveNext]_vars


\* The box store under draw gestures (between two corner points), manual
\* coordinate forms and removals.
CornerPixelsX == {0, 10}
CornerPixelsY == {0, 8}

BoxStoreNext ==
  \/ Load(2)
  \/ \E m \in Modes : SetMode(m)
  \/ \E p \in Pages, px \in CornerPixelsX, py \in CornerPixelsY :
       Rendered /\ mode = "box" /\ MouseDown(p, px, py, FALSE)
  \/ \E px \in CornerPixelsX, py \in CornerPixelsY : Rendered /\ MouseMove(px, py)
  \/ Rendered /\ MouseUp
  \/ Rendered /\ MouseLeave
  \/ \E id \in BoxIds : RemoveBox(id)
  \/ \E id \in BoxIds : SetActiveBoundingBox(id)
  \/ \E c \in CoordinateForms, label \in LabelTexts : SubmitBoundingBoxForm(c, label)

SpecBoxStore == Init /\ [][BoxStoreNext]_vars

\* Text mode and box mode side by side: pointer-downs on fields, on
\* annotations and on the canvas, typing, dragging and mode switches.
TextPixelsX == {0, 4, 10}
TextKeys == {"a", "Enter", "Escape"}

TextNext ==
  \/ LoadFit(2)
  \/ FormFieldsDetected(2)
  \/ \E m \in Modes : SetMode(m)
  \/ \E p \in Pages, px \in TextPixelsX, onLayer \in BOOLEAN :
       Rendered /\ MouseDown(p, px, 8, onLayer)
  \/ Rendered /\ MouseMove(10, 8)
  \/ Rendered /\ MouseUp
  \/ Rendered /\ MouseLeave
  \/ \E k \in TextKeys : KeyDown(k)
  \/ DocumentMouseMove(4, 8)
  \/ DocumentMouseUp
  \/ \E id \in AnnotationIds : RemoveAnnotation(id)

SpecText == Init /\ [][TextNext]_vars

\* A PlacingText session under every kind of key.
TypeNext ==
  \/ LoadFit(2)
  \/ \E m \in Modes : SetMode(m)
  \/ \E p \in Pages : Rendered /\ MouseDown(p, 4, 8, FALSE)
  \/ \E k \in Keys : KeyDown(k)
  \/ DocumentMouseUp
  \/ \E id \in AnnotationIds : RemoveAnnotation(id)

SpecType == Init /\ [][TypeNext]_vars

\* Creations and removals while the clock runs.
IdsNext ==
  \/ LoadFit(2)
  \/ \E m \in Modes : SetMode(m)
  \/ Rendered /\ MouseDown(1, 0, 0, FALSE)
  \/ Rendered /\ MouseMove(10, 8)
  \/ Rendered /\ MouseUp
  \/ \E k \in {"a", "Enter"} : KeyDown(k)
  \/ DocumentMouseUp
  \/ \E c \in CoordinateForms : SubmitBoundingBoxForm(c, << >>)
  \/ \E id \in BoxIds : RemoveBox(id)
  \/ \E id \in AnnotationIds : RemoveAnnotation(id)
  \/ Tick

SpecIds == Init /\ [][IdsNext]_vars

\* The text annotations under commits, drags, text updates and removals
\* while the clock runs.
NewTexts == { << "b" >> }

AnnotationsNext ==
  \/ LoadFit(2)
  \/ \E m \in Modes : SetMode(m)
  \/ Rendered /\ MouseDown(1, 10, 8, FALSE)
  \/ \E k \in {"a", "Enter"} : KeyDown(k)
  \/ DocumentMouseMove(4, 8)
  \/ DocumentMouseUp
  \/ \E id \in AnnotationIds, text \in NewTexts : UpdateText(id, text)
  \/ \E id \in AnnotationIds : RemoveAnnotation(id)
  \/ Tick

SpecAnnotations == Init /\ [][AnnotationsNext]_vars

\* documents come and go while boxes are drawn and text is placed
FilesNext ==
  \/ \E f \in Uploads : SelectFile(f)
  \/ RemoveFile
  \/ DocumentLoadSuccess
  \/ PageLoadSuccess(640, 840)
  \/ \E f \in Uploads : FormFieldsDetected(f)
  \/ \E m \in Modes : SetMode(m)
  \/ Rendered /\ MouseDown(1, 0, 0, FALSE)
  \/ MouseMove(10, 8)
  \/ MouseUp
  \/ KeyDown("a")
  \/ KeyDown("Enter")
SpecFiles == Init /\ [][FilesNext]_vars

\* files of every type and size are picked, and removed, with a box in the store
UploadNext ==
  \/ \E sel \in Selections : FileChange(sel)
  \/ RemoveFile
  \/ DocumentLoadSuccess
  \/ PageLoadSuccess(640, 840)
  \/ \E f \in Uploads : FormFieldsDetected(f)
  \/ Rendered /\ MouseDown(1, 0, 0, FALSE)
  \/ MouseMove(10, 8)
  \/ MouseUp
SpecUpload == Init /\ [][UploadNext]_vars

\* one document of any kind is uploaded and introspected; a box is drawn, a
\* text is placed and the document is exported
IntrospectNext ==
  \/ \E f \in Files : SelectFile(f)
  \/ DocumentLoadSuccess
  \/ PageLoadSuccess(640, 840)
  \/ \E f \in Files : FormFieldsDetected(f)
  \/ \E m \in Modes : SetMode(m)
  \/ Rendered /\ MouseDown(1, 0, 0, FALSE)
  \/ MouseMove(10, 8)
  \/ MouseUp
  \/ KeyDown("a")
  \/ KeyDown("Enter")
  \/ DocumentMouseUp
  \/ ExportPDF
SpecIntrospect == Init /\ [][IntrospectNext]_vars

\* documents of one and of two pages come and go; boxes are drawn and text
\* is placed on their pages, and the loaded document is exported
ExportNext ==
  \/ \E f \in Uploads : SelectFile(f)
  \/ RemoveFile
  \/ DocumentLoadSuccess
  \/ PageLoadSuccess(640, 840)
  \/ \E m \in Modes : SetMode(m)
  \/ \E p \in Pages : Rendered /\ MouseDown(p, 0, 0, FALSE)
  \/ MouseMove(10, 8)
  \/ MouseUp
  \/ KeyDown("a")
  \/ KeyDown("Enter")
  \/ ExportPDF
SpecExport == Init /\ [][ExportNext]_vars

\* the form of document 3 is filled in through the overlay and exported
FormNext ==
  \/ LoadFit(3)
  \/ FormFieldsDetected(3)
  \/ \E m \in Modes : SetMode(m)
  \/ \E field \in RenderedFields : \E value \in WidgetValues(field) :
       FormValueChange(field, value)
  \/ ExportPDF
SpecForm == Init /\ [][FormNext]_vars

\* form documents come and go while their text fields are edited in the
\* overlay
FormDocuments == {2, 3}
TextFields == {"F1", "name"}
EditsNext ==
  \/ \E f \in FormDocuments : SelectFile(f)
  \/ RemoveFile
  \/ DocumentLoadSuccess
  \/ PageLoadSuccess(640, 840)
  \/ \E f \in FormDocuments : FormFieldsDetected(f)
  \/ \E m \in Modes : SetMode(m)
  \/ \E field \in RenderedFields : \E value \in WidgetValues(field) :
       field.name \in TextFields /\ FormValueChange(field, value)
SpecEdits == Init /\ [][EditsNext]_vars

\* the text field and the checkbox of document 3 are edited, one box is
\* drawn, one-letter texts are placed, and the document is exported
EditedFields == {"name", "agree"}
WritesNext ==
  \/ LoadFit(3)
  \/ FormFieldsDetected(3)
  \/ \E m \in Modes : SetMode(m)
  \/ \E field \in RenderedFields : \E value \in WidgetValues(field) :
       field.name \in EditedFields /\ FormValueChange(field, value)
  \/ Rendered /\ MouseDown(1, 0, 0, FALSE)
  \/ MouseMove(10, 8)
  \/ MouseUp
  \/ activeTextAnnotation # None /\ Val(activeTextAnnotation).text = << >> /\ KeyDown("a")
  \/ KeyDown("Enter")
  \/ ExportPDF
SpecWrites == Init /\ [][WritesNext]_vars

\* a document that pdf-lib can load, or one it cannot, is exported with
\* texts and form values that the standard font can encode, or cannot
OutcomeKeys == {"a", "Ω", "Enter"}
OutcomeNext ==
  \/ \E f \in {3, 5} : SelectFile(f)
  \/ DocumentLoadSuccess
  \/ PageLoadSuccess(640, 840)
  \/ \E f \in {3, 5} : FormFieldsDetected(f)
  \/ \E m \in Modes : SetMode(m)
  \/ \E field \in RenderedFields : \E value \in WidgetValues(field) :
       field.name = "name" /\ FormValueChange(field, value)
  \/ Rendered /\ MouseDown(1, 0, 0, FALSE)
  \/ MouseMove(10, 8)
  \/ MouseUp
  \/ \E k \in OutcomeKeys :
       /\ activeTextAnnotation # None
       /\ k # "Enter" => Val(activeTextAnnotation).text = << >>
       /\ KeyDown(k)
  \/ ExportPDF
SpecOutcome == Init /\ [][OutcomeNext]_vars

\* boxes are drawn on both pages of the two-page document and entered in the
\* coordinate form, with and without a label, and the document is exported
ExportForms ==
  { << <<"3">>, <<"3">>, <<"8", ".", "5">>, <<"1", "2">> >>,
    << <<"8">>, <<"3">>, <<"3">>, <<"8">> >> }
ExportLabels == { << >>, <<"L">> }
ExportBoxesNext ==
  \/ LoadFit(2)
  \/ \E p \in Pages : Rendered /\ MouseDown(p, 0, 0, FALSE)
  \/ Rendered /\ MouseMove(10, 8)
  \/ Rendered /\ MouseUp
  \/ \E id \in BoxIds : RemoveBox(id)
  \/ \E c \in ExportForms, label \in ExportLabels : SubmitBoundingBoxForm(c, label)
  \/ ExportPDF
SpecExportBoxes == Init /\ [][ExportBoxesNext]_vars

\* documents are loaded into containers of every size, removed and loaded
\* again, between pointer, key, mode and store operations
ScaleNext ==
  \/ Load(2)
  \/ RemoveFile
  \/ \E m \in Modes : SetMode(m)
  \/ Rendered /\ MouseDown(1, 0, 0, FALSE)
  \/ MouseMove(10, 8)
  \/ MouseUp
  \/ MouseLeave
  \/ activeTextAnnotation # None /\ Val(activeTextAnnotation).text = << >> /\ KeyDown("a")
  \/ KeyDown("Enter")
  \/ DocumentMouseMove(4, 8)
  \/ DocumentMouseUp
  \/ \E id \in BoxIds : RemoveBox(id)
  \/ \E id \in AnnotationIds : RemoveAnnotation(id)
SpecScale == Init /\ [][ScaleNext]_vars

\* ------------------------------------------------------------------------
\* Draw gestures (SpecDraw)
\* ------------------------------------------------------------------------
PixelPoints == PixelsX \X PixelsY

\* a draw session is live on the rendered document and box mode is selected
DrawLive ==
  Rendered /\ mode = "box" /\ isDrawing /\ startPoint # None /\ draggingAnnotation = None

\* the pixel points whose page-space position is the origin of the session
OriginPixels ==
  { a \in PixelPoints : ToPage(a[1], scale) = Val(startPoint).x
                        /\ ToPage(a[2], scale) = Val(startPoint).y }

\* the session released with the pointer at pixel point b
Released(b) == HandleMouseUp(HandleMouseMove(Cur, b[1], b[2]))

\* a whole gesture pressed at a and released at b on page p
Gesture(p, a, b) ==
  HandleMouseUp(HandleMouseMove(PointerDown(Cur, p, a[1], a[2], FALSE), b[1], b[2]))

\* the exact (unrounded) page-space position of a pixel coordinate, in 1/U
Exact(px) == (px * U * ScaleDen) \div scale

\* c is v rounded to one decimal place: a multiple of 0.1 at most 0.05 away
Nearest1(c, v) == c % (U \div 10) = 0 /\ 2 * 10 * Abs(c - v) <= U

ExtentX(b) == Abs(Exact(b[1]) - Val(startPoint).x)
ExtentY(b) == Abs(Exact(b[2]) - Val(startPoint).y)

\* releasing at b appends exactly one box, with the rounded min/max corners
\* of the origin and the release point, whichever corner was pressed first
AppendsOne(b) ==
  LET after == Released(b).boundingBoxes
      n == Len(boundingBoxes)
      o == Val(startPoint)
  IN /\ Len(after) = n + 1
     /\ SubSeq(after, 1, n) = boundingBoxes
     /\ LET c == after[n + 1].coords
        IN /\ Nearest1(c[1], Min2(o.x, Exact(b[1])))
           /\ Nearest1(c[2], Min2(o.y, Exact(b[2])))
           /\ Nearest1(c[3], Max2(o.x, Exact(b[1])))
           /\ Nearest1(c[4], Max2(o.y, Exact(b[2])))
           /\ c[1] < c[3] /\ c[2] < c[4]
           /\ \A a \in OriginPixels, p \in 1..numPages :
                LET back == Gesture(p, b, a).boundingBoxes
                IN Len(back) = n + 1 /\ back[n + 1].coords = c

\* C1 (as amended): in box mode, whatever pointer-moves came before, a draw
\* session released with an extent strictly above 5 page units in both
\* width and height appends exactly one box whose coords are the min/max
\* corners of the origin and the release point, each rounded to one decimal
\* place, with x1 < x2 and y1 < y2; the reverse gesture stores the same
\* coords.
C1_DrawAppendsOneBox ==
  DrawLive =>
    \A b \in PixelPoints :
      (ExtentX(b) > 5 * U /\ ExtentY(b) > 5 * U) => AppendsOne(b)

\* C1 as stated: an extent at or above 5 in both dimensions appends the box.
C1_AtOrAboveThreshold ==
  DrawLive =>
    \A b \in PixelPoints :
      (ExtentX(b) >= 5 * U /\ ExtentY(b) >= 5 * U) => AppendsOne(b)

\* a committed box whose far corner was rounded up (8 px at scale 0.75 is
\* 10.67, stored as 10.7) next to one rounded down (4 px is 5.33, stored 5.3)
C1_Witness ==
  /\ ~isDrawing /\ scale = 3
  /\ \E i \in 1..Len(boundingBoxes) :
       boundingBoxes[i].coords = << 0, 0, 159, 321 >>

Commits(b) == Len(Released(b).boundingBoxes) = Len(boundingBoxes) + 1

\* C3 (as amended): the threshold is applied to the page-space extent, the
\* screen-pixel extent divided by the zoom scale: a released drag of dx by
\* dy screen pixels creates a box exactly when dx / scale > 5 and
\* dy / scale > 5.
C3_ThresholdInPageSpace ==
  DrawLive =>
    \A a \in OriginPixels, b \in PixelPoints :
      Commits(b) <=> /\ Abs(b[1] - a[1]) * ScaleDen > 5 * scale
                     /\ Abs(b[2] - a[2]) * ScaleDen > 5 * scale

\* C3 as stated: at every scale a released drag creates a box exactly when
\* its extent in screen pixels exceeds 5 horizontally and 5 vertically.
C3_ThresholdInScreenPixels ==
  DrawLive =>
    \A a \in OriginPixels, b \in PixelPoints :
      Commits(b) <=> (Abs(b[1] - a[1]) > 5 /\ Abs(b[2] - a[2]) > 5)

\* at scale 1.5 a live drag of 6 by 8 screen pixels, a preview 4 units wide
C3_Witness ==
  /\ DrawLive /\ scale = 6 /\ currentBox # None
  /\ Val(currentBox).width = 4 * U /\ Val(currentBox).height > 5 * U

\* ------------------------------------------------------------------------
\* The box store (SpecBoxStore)
\* ------------------------------------------------------------------------

\* the text of a coordinate input is a number for parseInt
Numeric(t) == ~ParseInt(t).nan

\* C4: every box in the store has x2 > x1 and y2 > y1, whatever draw
\* gestures, manual submissions and removals produced it; a manual
\* submission with a non-numeric coordinate, or with x1 >= x2 or y1 >= y2,
\* leaves the store (and the rest of the state) unchanged.
C4_BoxesWellFormed ==
  /\ \A i \in 1..Len(boundingBoxes) :
       /\ boundingBoxes[i].coords[3] > boundingBoxes[i].coords[1]
       /\ boundingBoxes[i].coords[4] > boundingBoxes[i].coords[2]
  /\ \A c \in CoordinateForms, label \in LabelTexts :
       (\/ \E i \in 1..4 : ~Numeric(c[i])
        \/ ParseInt(c[1]).n >= ParseInt(c[3]).n
        \/ ParseInt(c[2]).n >= ParseInt(c[4]).n)
         => HandleSubmit(Cur, c, label) = Cur

\* the store holds a drawn box and a submitted one
C4_Witness ==
  \E i, j \in 1..Len(boundingBoxes) :
    /\ boundingBoxes[i].label = Some(<< "Box ", "1" >>)
    /\ boundingBoxes[j].coords = << 3 * U, 3 * U, 8 * U, 12 * U >>

\* ------------------------------------------------------------------------
\* Identifiers (SpecIds)
\* ------------------------------------------------------------------------

\* C5: identifiers are unique: no two bounding boxes in the store share an
\* id and no two text annotations share an id (an id given again after a
\* removal, while its first holder is gone, shows as such a pair as soon as
\* two creations read the same clock value).
C5_IdsUnique ==
  /\ \A i, j \in 1..Len(boundingBoxes) :
       i # j => boundingBoxes[i].id # boundingBoxes[j].id
  /\ \A i, j \in 1..Len(textAnnotations) :
       i # j => textAnnotations[i].id # textAnnotations[j].id

\* ------------------------------------------------------------------------
\* Pointer-downs and sessions (SpecText)
\* ------------------------------------------------------------------------

\* C6: in text mode a pointer-down on a form field changes nothing; on an
\* existing text annotation (and no field) it starts dragging an annotation
\* under the pointer and neither starts a PlacingText session nor adds an
\* annotation; on any other point of a page it starts a PlacingText session
\* with an empty buffer at the click position on that page.
C6_PointerDownPriority ==
  (Rendered /\ mode = "text") =>
    \A p \in 1..numPages, px \in TextPixelsX, onLayer \in BOOLEAN :
      LET mx == ToPage(px, scale)
          my == ToPage(8, scale)
          after == PointerDown(Cur, p, px, 8, onLayer)
      IN IF FieldsAt(Cur, p, mx, my) # {}
           THEN after = Cur
         ELSE IF AnnotationsAt(Cur, p, mx, my) # {}
           THEN /\ \E i \in AnnotationsAt(Cur, p, mx, my) :
                     after.draggingAnnotation = Some(textAnnotations[i].id)
                /\ after.activeTextAnnotation = activeTextAnnotation
                /\ after.textAnnotations = textAnnotations
         ELSE after.activeTextAnnotation =
                Some([x |-> mx, y |-> my, text |-> << >>, page |-> p])

\* C7: at most one of the three sessions (isDrawing, activeTextAnnotation,
\* draggingAnnotation) is live in every reachable state.
C7_OneSessionAtATime ==
  /\ ~(isDrawing /\ activeTextAnnotation # None)
  /\ ~(isDrawing /\ draggingAnnotation # None)
  /\ ~(activeTextAnnotation # None /\ draggingAnnotation # None)

\* C8: every live session can be ended, whatever mode is selected: a
\* pointer-up ends a live draw session and a live drag session, Enter and
\* Escape each end a live PlacingText session.
C8_SessionsTerminable ==
  /\ (isDrawing /\ draggingAnnotation = None) => ~HandleMouseUp(Cur).isDrawing
  /\ draggingAnnotation # None => HandleDocumentMouseUp(Cur).draggingAnnotation = None
  /\ activeTextAnnotation # None =>
       \A k \in {"Enter", "Escape"} : HandleKeyDown(Cur, k).activeTextAnnotation = None

\* C10: while an annotation is dragged, a pointer-move sets its position to
\* the pointer's page-space position minus the grab offset and changes
\* nothing else: the number, ids and order of the annotations and every
\* field of every other annotation stay; a move at the very point of the
\* pointer-down that grabbed the annotation leaves it where it was; a
\* pointer-up ends the drag.
C10_DragMovesOnlyTheDragged ==
  /\ (Rendered /\ draggingAnnotation # None /\ Find(Cur, Val(draggingAnnotation)) # 0) =>
       LET i == Find(Cur, Val(draggingAnnotation))
           after == HandleDocumentMouseMove(Cur, 4, 8).textAnnotations
       IN /\ Len(after) = Len(textAnnotations)
          /\ \A j \in 1..Len(textAnnotations) :
               IF j = i
               THEN after[j] = [textAnnotations[j] EXCEPT
                                  !.x = Exact(4) - dragOffset.x,
                                  !.y = Exact(8) - dragOffset.y]
               ELSE after[j] = textAnnotations[j]
          /\ HandleDocumentMouseUp(Cur).draggingAnnotation = None
  /\ (Rendered /\ mode = "text") =>
       \A p \in 1..numPages, px \in TextPixelsX :
         HitTest(Cur, p, Exact(px), Exact(8)) = "annotation" =>
           HandleDocumentMouseMove(PointerDown(Cur, p, px, 8, TRUE), px, 8).textAnnotations
             = textAnnotations

\* ------------------------------------------------------------------------
\* Typing (SpecType)
\* ------------------------------------------------------------------------

\* the text has a character that is not white space
NonBlank(t) == \E i \in 1..Len(t) : t[i] # " "

\* C9: in a PlacingText session a single-character key appends itself to the
\* buffer, Backspace removes the last character and any other key leaves
\* the buffer as it is; Enter ends the session and adds exactly one
\* annotation with the buffer text, the click position, the click page and
\* fontSize 14 if and only if the buffer is non-empty after trimming;
\* Escape ends the session and leaves the annotations unchanged.
C9_TypingSession ==
  activeTextAnnotation # None =>
    LET a == Val(activeTextAnnotation)
        Key(k) == HandleKeyDown(Cur, k)
        Buffer(k) == Val(Key(k).activeTextAnnotation).text
        Kept(k) == /\ Key(k).activeTextAnnotation # None
                   /\ Key(k) = [Cur EXCEPT !.activeTextAnnotation =
                                             Some([a EXCEPT !.text = Buffer(k)])]
    IN /\ \A k \in {"a", " "} : Kept(k) /\ Buffer(k) = a.text \o << k >>
       /\ Kept("Backspace")
       /\ Buffer("Backspace") =
            IF a.text = << >> THEN << >> ELSE SubSeq(a.text, 1, Len(a.text) - 1)
       /\ Key("Shift") = Cur
       /\ Key("Escape") = [Cur EXCEPT !.activeTextAnnotation = None]
       /\ Key("Enter").activeTextAnnotation = None
       /\ LET after == Key("Enter").textAnnotations
              n == Len(textAnnotations)
          IN IF NonBlank(a.text)
             THEN /\ Len(after) = n + 1
                  /\ SubSeq(after, 1, n) = textAnnotations
                  /\ after[n + 1].text = a.text
                  /\ after[n + 1].x = a.x /\ after[n + 1].y = a.y
                  /\ after[n + 1].page = a.page
                  /\ after[n + 1].fontSize = 14
             ELSE after = textAnnotations

\* a committed annotation "a " on page 2 and a session whose buffer is blank
C9_Witness ==
  /\ activeTextAnnotation # None /\ Val(activeTextAnnotation).text = << " " >>
  /\ \E i \in 1..Len(textAnnotations) :
       /\ textAnnotations[i].text = << "a", " " >>
       /\ textAnnotations[i].page = 2 /\ textAnnotations[i].fontSize = 14

\* ------------------------------------------------------------------------
\* Updates of text annotations (SpecAnnotations)
\* ------------------------------------------------------------------------
UpdateIds == AnnotationIds \cup {"text-none"}

\* the annotations a and b agree on everything but the text
SameButText(a, b) ==
  /\ a.id = b.id /\ a.x = b.x /\ a.y = b.y
  /\ a.fontSize = b.fontSize /\ a.page = b.page

\* the annotations a and b agree on everything but the position
SameButPosition(a, b) ==
  /\ a.id = b.id /\ a.text = b.text
  /\ a.fontSize = b.fontSize /\ a.page = b.page

\* C11: a text update of id changes only the text of the annotations whose
\* id it is, a position update only their x and y: every other field and
\* every other annotation keeps its value, the collection keeps its length
\* and order, and the rest of the state is untouched.
C11_PartialUpdates ==
  \A id \in UpdateIds :
    /\ \A text \in NewTexts :
         LET st == UpdateTextAnnotation(Cur, id, text)
         IN /\ Len(st.textAnnotations) = Len(textAnnotations)
            /\ \A i \in 1..Len(textAnnotations) :
                 IF textAnnotations[i].id = id
                 THEN /\ st.textAnnotations[i].text = text
                      /\ SameButText(st.textAnnotations[i], textAnnotations[i])
                 ELSE st.textAnnotations[i] = textAnnotations[i]
            /\ st = [Cur EXCEPT !.textAnnotations = st.textAnnotations]
    /\ \A x \in {0, 7 * U}, y \in {0 - U} :
         LET st == UpdateTextAnnotationCoordinates(Cur, id, x, y)
         IN /\ Len(st.textAnnotations) = Len(textAnnotations)
            /\ \A i \in 1..Len(textAnnotations) :
                 IF textAnnotations[i].id = id
                 THEN /\ st.textAnnotations[i].x = x /\ st.textAnnotations[i].y = y
                      /\ SameButPosition(st.textAnnotations[i], textAnnotations[i])
                 ELSE st.textAnnotations[i] = textAnnotations[i]
            /\ st = [Cur EXCEPT !.textAnnotations = st.textAnnotations]

\* two annotations with different ids: the first dragged to x = 4, the
\* second with its text replaced
C11_Witness ==
  /\ Len(textAnnotations) = 2
  /\ textAnnotations[1].id # textAnnotations[2].id
  /\ textAnnotations[1].x = 4 * U /\ textAnnotations[1].text = << "a" >>
  /\ textAnnotations[2].x = 10 * U /\ textAnnotations[2].text = << "b" >>

\* ------------------------------------------------------------------------
\* The active-box pointer (SpecBoxStore)
\* ------------------------------------------------------------------------

\* C12: removing the box the active pointer names sets the pointer to null;
\* removing any other box leaves the pointer as it is.
C12_ActivePointerOnRemoval ==
  \A id \in BoxIds :
    LET st == RemoveBoundingBox(Cur, id)
    IN /\ activeBoundingBox = Some(id) => st.activeBoundingBox = None
       /\ activeBoundingBox # Some(id) => st.activeBoundingBox = activeBoundingBox

\* a box is left in the store after the active one was removed
C12_Witness == boundingBoxes # << >> /\ activeBoundingBox = None

C14_UploadValidation ==
  file = None =>
    \A sel \in Selections :
      LET r == HandleFileChange(file, sel)
          valid == sel.type = "application/pdf" /\ sel.size <= 52428800
      IN /\ valid => r.file = Some(sel.doc) /\ r.toast = "success"
         /\ ~valid => r.file = file /\ r.toast = "error"
         /\ ~valid => ENABLED (FileChange(sel) /\ UNCHANGED vars)
         /\ ~valid => ~ENABLED (FileChange(sel) /\ file' # file)
C14_Witness ==
  /\ file = None
  /\ boundingBoxes # << >>
  /\ formFieldsInfo = None

\* ------------------------------------------------------------------------
\* C15: form introspection never fails: for a document without a form, and
\* for any error while the document is loaded or its form is read,
\* detectFormFields resolves (never rejects) with hasFormFields = false, no
\* fields and an empty value map; drawing, text placement and export stay
\* usable afterwards
\* ------------------------------------------------------------------------
Formless(f) == ~DocLoadable(f) \/ ~DocFormReadable(f) \/ DocFields(f) = << >>
C15_IntrospectionNeverFails ==
  /\ \A f \in Files :
       /\ DetectFormFields(f).state = "fulfilled"
       /\ Formless(f) => DetectFormFields(f).value = NoFormFields
  /\ file # None /\ pendingDetect = {} => formFieldsInfo # None
  /\ file # None /\ Formless(Val(file)) /\ pendingDetect = {} =>
       /\ formFieldsInfo = Some(NoFormFields)
       /\ formValues = NoValues
       /\ Rendered /\ draggingAnnotation = None =>
            /\ mode = "box" => PointerDown(Cur, 1, 0, 0, FALSE).isDrawing
            /\ mode = "text" =>
                 IsSome(PointerDown(Cur, 1, 10, 8, FALSE).activeTextAnnotation)
       /\ ENABLED ExportPDF
       /\ LET r == ExportPDFWithAnnotations(Val(file), textAnnotations, boundingBoxes,
                                            formValues)
          IN r.ok = DocLoadable(Val(file))
C15_Witness ==
  /\ file = Some(4)
  /\ formFieldsInfo = Some(NoFormFields)
  /\ boundingBoxes # << >>
  /\ textAnnotations # << >>
  /\ exported # None
  /\ Val(exported).ok
  /\ Len(Val(exported).draws) > 2

\* ------------------------------------------------------------------------
\* C16: after introspection of a document with fields every field has one
\* descriptor, of type text, checkbox, dropdown, radio, button or
\* option-list, and the initial value map holds for each field a value of
\* the shape of its type: a string for text and radio, a boolean for
\* checkbox, an array of strings for dropdown and option-list, no entry for
\* a button; the keys of the value map are descriptor names
\* ------------------------------------------------------------------------
FieldTypes == {"text", "checkbox", "dropdown", "radio", "button", "option-list"}
ShapeOf(type) ==
  CASE type \in {"text", "radio"} -> "string"
    [] type = "checkbox" -> "boolean"
    [] type \in {"dropdown", "option-list"} -> "array"
    [] OTHER -> "none"
C16_DescriptorsAndValues ==
  \A f \in Files :
    formFieldsInfo = Some(DetectFormFields(f).value) /\ Val(formFieldsInfo).hasFormFields =>
      LET info == Val(formFieldsInfo)
          names == { info.fields[i].name : i \in 1..Len(info.fields) }
      IN /\ Len(info.fields) = Len(DocFields(f))
         /\ \A i \in 1..Len(info.fields) :
              /\ info.fields[i].name = DocFields(f)[i].name
              /\ info.fields[i].type \in FieldTypes
              /\ IF info.fields[i].type = "button"
                 THEN info.fields[i].name \notin DOMAIN info.formValues
                 ELSE /\ info.fields[i].name \in DOMAIN info.formValues
                      /\ info.formValues[info.fields[i].name].kind =
                           ShapeOf(info.fields[i].type)
         /\ DOMAIN info.formValues \subseteq names
         /\ formValues = info.formValues

\* ------------------------------------------------------------------------
\* C17: a successful export draws every text annotation of the store once,
\* on the page named by its page field, at x and pdfY = pageHeight - y, with
\* its font size: for N boxes and M text annotations it issues N rectangle
\* draws and M draws of annotation text, none skipped (the draws of box
\* labels, in the label colour, are not counted)
\* ------------------------------------------------------------------------
RECURSIVE Only(_, _, _)
Only(draws, op, color) ==
  IF draws = << >> THEN << >>
  ELSE (IF Head(draws).op = op /\ Head(draws).color = color THEN << Head(draws) >> ELSE << >>)
       \o Only(Tail(draws), op, color)
C17_ExportDrawsEverything ==
  exported # None /\ Val(exported).ok /\ file = Some(Val(exported).doc)
  /\ Val(exported) = ExportPDFWithAnnotations(Val(file), textAnnotations, boundingBoxes,
                                              formValues) =>
    LET texts == Only(Val(exported).draws, "text", "black")
        rectangles == Only(Val(exported).draws, "rectangle", "blue")
    IN /\ Len(rectangles) = Len(boundingBoxes)
       /\ Len(texts) = Len(textAnnotations)
       /\ \A i \in 1..Len(textAnnotations) :
            LET a == textAnnotations[i] IN
              /\ i <= Len(texts)
              /\ texts[i].page = a.page
              /\ texts[i].x = a.x
              /\ texts[i].y = DocPageHeightAt(Val(file), a.page) * U - a.y
              /\ texts[i].size = a.fontSize
              /\ texts[i].text = a.text

\* ------------------------------------------------------------------------
\* C18: for every bounding box [x1, y1, x2, y2] of the store, export draws a
\* rectangle with x = x1, y = pageHeight - y2, width = x2 - x1 > 0 and
\* height = y2 - y1 > 0, and, when the box has a label, draws the label at
\* x1, strictly above the rectangle's top edge pageHeight - y1 (pageHeight:
\* the height of the page the export draws boxes on, the first)
\* ------------------------------------------------------------------------
HasLabel(bbox) == IsSome(bbox.label)
C18_BoxDraws ==
  file # None =>
    LET r == ExportPDFWithAnnotations(Val(file), textAnnotations, boundingBoxes,
                                      formValues)
        h == DocPageHeight(Val(file)) * U
        rectangles == Only(r.draws, "rectangle", "blue")
        labels == Only(r.draws, "text", "blue")
        labelled == SelectSeq(boundingBoxes, HasLabel)
    IN /\ r.ok
       /\ Len(rectangles) = Len(boundingBoxes)
       /\ \A i \in 1..Len(boundingBoxes) :
            LET c == boundingBoxes[i].coords IN
              /\ rectangles[i].x = c[1]
              /\ rectangles[i].y = h - c[4]
              /\ rectangles[i].width = c[3] - c[1] /\ rectangles[i].width > 0
              /\ rectangles[i].height = c[4] - c[2] /\ rectangles[i].height > 0
              /\ rectangles[i].y + rectangles[i].height = h - c[2]
       /\ Len(labels) = Len(labelled)
       /\ \A k \in 1..Len(labelled) :
            /\ labels[k].x = labelled[k].coords[1]
            /\ labels[k].y > h - labelled[k].coords[2]
            /\ labels[k].text = Val(labelled[k].label)
C18_Witness ==
  /\ exported # None
  /\ Val(exported) = ExportPDFWithAnnotations(Val(file), textAnnotations, boundingBoxes,
                                              formValues)
  /\ Len(boundingBoxes) = 2
  /\ Len(Val(exported).draws) = 3

\* ------------------------------------------------------------------------
\* C19: bounding boxes are page-scoped: a box created by a draw gesture on
\* page p is rendered in the viewer only on page p, is drawn by export only
\* on page p and is stored with page = p, for every page p of a multi-page
\* document
\* ------------------------------------------------------------------------
C19_BoxesPageScoped ==
  Rendered /\ mode = "box" /\ ~isDrawing /\ draggingAnnotation = None =>
    \A p \in 1..numPages :
      LET after == Gesture(p, << 0, 0 >>, << 10, 8 >>)
          n == Len(boundingBoxes)
      IN Len(after.boundingBoxes) = n + 1 =>
           LET bbox == after.boundingBoxes[n + 1]
               r == ExportPDFWithAnnotations(Val(file), after.textAnnotations,
                                             after.boundingBoxes, formValues)
               rectangles == Only(r.draws, "rectangle", "blue")
           IN /\ \A q \in 1..numPages :
                   LET shown == RenderBoundingBoxes(after.boundingBoxes, q)
                   IN (\E i \in 1..Len(shown) : i = n + 1 /\ shown[i] = bbox) <=> q = p
              /\ rectangles[n + 1].page = p
              /\ "page" \in DOMAIN bbox
              /\ bbox.page = p

\* ------------------------------------------------------------------------
\* C20: form round trip: export writes every entry of the form-value map
\* that was set through the field overlay into the field of the same name,
\* according to the field's type, so that introspecting the exported
\* document returns the value map that was exported
\* ------------------------------------------------------------------------
C20_FormRoundTrip ==
  exported # None /\ Val(exported).ok /\ file = Some(Val(exported).doc)
  /\ formFieldsInfo = Some(DetectFormFields(Val(file)).value)
  /\ Val(exported) = ExportPDFWithAnnotations(Val(file), textAnnotations, boundingBoxes,
                                              formValues) =>
    LET back == DetectFields(TRUE, TRUE, Val(exported).fields).value
    IN /\ back.hasFormFields = Val(formFieldsInfo).hasFormFields
       /\ back.formValues = formValues

\* ------------------------------------------------------------------------
\* C21: a failure while one form value is written during export (unknown
\* field name, value of the wrong type for the field, a write that throws)
\* is confined to that entry: every other form value is still written, all
\* text annotations and boxes are still drawn, and the export still ends
\* with a download
\* ------------------------------------------------------------------------
FailingEntries ==
  { [name |-> "ghost", value |-> StringValue("x")],             \* no such field
    [name |-> "agree", value |-> StringValue("yes")],           \* wrong type
    [name |-> "size", value |-> StringValue("XL")],             \* select throws
    [name |-> "langs", value |-> ArrayValue(<< "xx" >>)] }      \* select throws
Written(fld, value) ==
  CASE fld.class = "PDFTextField" -> fld.text = Some(value.s)
    [] fld.class = "PDFCheckBox" -> fld.checked = value.b
    [] OTHER -> TRUE
C21_WriteFailuresConfined ==
  file = Some(3) /\ DrawsSucceed(TextDraws(3, textAnnotations) \o BoxDraws(3, boundingBoxes))
  /\ SaveSucceeds(TRUE, DocFields(3), formValues) =>
    \A bad \in FailingEntries :
      LET values == SetFormValue(formValues, bad.name, bad.value)
          r == ExportPDFWithAnnotations(3, textAnnotations, boundingBoxes, values)
      IN /\ r.ok /\ ~r.alert
         /\ Len(r.downloads) = 1
         /\ Len(Only(r.draws, "text", "black")) = Len(textAnnotations)
         /\ Len(Only(r.draws, "rectangle", "blue")) = Len(boundingBoxes)
         /\ r.draws = TextDraws(3, textAnnotations) \o BoxDraws(3, boundingBoxes)
         /\ \A i \in 1..Len(r.fields) :
              IF r.fields[i].name = bad.name
              THEN r.fields[i] = DocFields(3)[i]
              ELSE r.fields[i].name \in DOMAIN formValues /\ formValues[r.fields[i].name].s # ""
                     => Written(r.fields[i], formValues[r.fields[i].name])
C21_Witness ==
  /\ file = Some(3)
  /\ exported # None
  /\ Val(exported).ok
  /\ "size" \in DOMAIN formValues
  /\ WriteThrows(TRUE, DocFields(3), "size", formValues["size"])
  /\ formValues["name"] = StringValue("Acme Corp")
  /\ formValues["agree"] = BooleanValue(TRUE)
  /\ Val(exported).fields[1].text = Some("Acme Corp")
  /\ Val(exported).fields[2].checked
  /\ Len(Val(exported).draws) = 3

\* ------------------------------------------------------------------------
\* C22: an export attempt offers a download exactly once, named
\* annotated_<file name>, if and only if loading, every draw and
\* serialization succeeded; on an export-wide failure the user is notified
\* and no file is offered; in both outcomes, and when export is invoked
\* with no file loaded, the file, the boxes, the text annotations and the
\* form values are left unchanged
\* ------------------------------------------------------------------------
C22_ExportOutcome ==
  /\ ~ENABLED (ExportPDF /\ <<file, boundingBoxes, textAnnotations, formValues>>'
                              # <<file, boundingBoxes, textAnnotations, formValues>>)
  /\ file = None => ~ENABLED (ExportPDF /\ exported' # exported)
  /\ file # None =>
       LET f == Val(file)
           r == ExportPDFWithAnnotations(f, textAnnotations, boundingBoxes, formValues)
           succeeded ==
             /\ DocLoadable(f)
             /\ DrawsSucceed(TextDraws(f, textAnnotations) \o BoxDraws(f, boundingBoxes))
             /\ SaveSucceeds(DocFormReadable(f), DocFields(f), formValues)
       IN /\ ENABLED (ExportPDF /\ exported' = Some(r))
          /\ succeeded => r.downloads = << "annotated_" \o FileName(f) >> /\ ~r.alert
          /\ ~succeeded => r.downloads = << >> /\ r.alert
  /\ exported # None =>
       /\ Len(Val(exported).downloads) = (IF Val(exported).ok THEN 1 ELSE 0)
       /\ Val(exported).alert = ~Val(exported).ok
C22_Witness ==
  /\ file = Some(3)
  /\ exported # None
  /\ Val(exported).alert
  /\ Val(exported).downloads = << >>
  /\ textAnnotations # << >>
  /\ boundingBoxes # << >>
  /\ Val(exported) = ExportPDFWithAnnotations(3, textAnnotations, boundingBoxes, formValues)

\* ------------------------------------------------------------------------
\* C23: a box committed by a draw gesture gets the label "Box N", N one
\* more than the number of boxes in the store at the moment of commit, after
\* any earlier additions and removals (so labels may repeat after a removal)
\* ------------------------------------------------------------------------
C23_DefaultLabel ==
  DrawLive =>
    \A b \in PixelPoints :
      LET after == Released(b).boundingBoxes
          n == Len(boundingBoxes)
      IN /\ Len(after) \in {n, n + 1}
         /\ Len(after) = n + 1 =>
              /\ after[n + 1].label = Some(<< "Box ", ToString(n + 1) >>)
              /\ SubSeq(after, 1, n) = boundingBoxes
C23_Witness ==
  /\ Len(boundingBoxes) = 2
  /\ boundingBoxes[1].label = Some(<< "Box ", "2" >>)
  /\ boundingBoxes[2].label = Some(<< "Box ", "2" >>)

\* ------------------------------------------------------------------------
\* C24: the zoom scale is set only by the page-load event of the first
\* page, to min(containerWidth / pageWidth, containerHeight / pageHeight,
\* 1.5) (the container less its padding of 40); it never exceeds 1.5, is one
\* value for all pages, and no pointer, key, mode or store operation
\* changes it
\* ------------------------------------------------------------------------
C24_ScaleSetOnPageLoad ==
  [][/\ 2 * scale' <= 3 * ScaleDen
     /\ scale' # scale =>
          /\ docState = "loaded" /\ docState' = "rendered"
          /\ <<storeVars, gestureVars, mode>>' = <<storeVars, gestureVars, mode>>
          /\ \E cw \in ClientWidths, ch \in ClientHeights :
               LET sx == ((cw - 40) * ScaleDen) \div pageWidth'
                   sy == ((ch - 40) * ScaleDen) \div pageHeight'
               IN /\ (cw - 40) * ScaleDen = sx * pageWidth'
                  /\ (ch - 40) * ScaleDen = sy * pageHeight'
                  /\ scale' <= sx /\ scale' <= sy
                  /\ scale' \in {sx, sy, (3 * ScaleDen) \div 2}]_vars
C24_Witness ==
  /\ Rendered
  /\ 2 * scale = 3 * ScaleDen
  /\ boundingBoxes # << >>
  /\ textAnnotations # << >>

\* ------------------------------------------------------------------------
\* C25: the mode gates the store mutations of the viewer: outside box mode
\* no pointer-up or mouse leave adds a bounding box, and outside text mode
\* no key adds a text annotation and no pointer move moves one
\* ------------------------------------------------------------------------
C25_ModeGatesMutations ==
  /\ mode # "box" =>
       HandleMouseUp(Cur).boundingBoxes = boundingBoxes
  /\ mode # "text" =>
       /\ \A k \in Keys : HandleKeyDown(Cur, k).textAnnotations = textAnnotations
       /\ \A px \in PixelsX, py \in PixelsY :
            HandleDocumentMouseMove(Cur, px, py).textAnnotations = textAnnotations

\* ------------------------------------------------------------------------
\* C26: the active-selection pointer is null or the id of a bounding box in
\* the store, and a box added by a gesture or by the coordinate form is the
\* active one
\* ------------------------------------------------------------------------
AddedIsActive(st) ==
  Len(st.boundingBoxes) > Len(boundingBoxes) =>
    st.activeBoundingBox = Some(st.boundingBoxes[Len(st.boundingBoxes)].id)

C26_ActivePointerValid ==
  /\ activeBoundingBox # None => Val(activeBoundingBox) \in BoxIds
  /\ AddedIsActive(HandleMouseUp(Cur))
  /\ \A c \in CoordinateForms, label \in LabelTexts :
       AddedIsActive(HandleSubmit(Cur, c, label))

\* two boxes with different ids, the one from the form added last and
\* active, while a gesture is about to add a third
C26_Witness ==
  /\ Len(boundingBoxes) = 2
  /\ boundingBoxes[1].id # boundingBoxes[2].id
  /\ activeBoundingBox = Some(boundingBoxes[2].id)
  /\ Len(HandleMouseUp(Cur).boundingBoxes) = 3

\* ------------------------------------------------------------------------
\* C27: the detected fields and the form values belong to the current file:
\* once no introspection is pending they are those of the loaded document,
\* and null and empty when no file is loaded (a late completion for an
\* earlier file does not overwrite them)
\* ------------------------------------------------------------------------
C27_FieldsOfCurrentFile ==
  pendingDetect = {} =>
    IF file = None
    THEN formFieldsInfo = None /\ formValues = NoValues
    ELSE formFieldsInfo = Some(DetectFormFields(Val(file)).value)

\* ------------------------------------------------------------------------
\* C28: in text mode, with a PlacingText session live, a pointer-down on
\* empty canvas replaces the session by a new one at the pointer position
\* with an empty buffer; the typed text is dropped and the annotations are
\* unchanged
\* ------------------------------------------------------------------------
C28_PointerDownReplacesSession ==
  (Rendered /\ mode = "text" /\ activeTextAnnotation # None) =>
    \A p \in 1..numPages, px \in TextPixelsX, onLayer \in BOOLEAN :
      LET mx == ToPage(px, scale)
          my == ToPage(8, scale)
          after == PointerDown(Cur, p, px, 8, onLayer)
      IN (FieldsAt(Cur, p, mx, my) = {} /\ AnnotationsAt(Cur, p, mx, my) = {}) =>
           /\ after.activeTextAnnotation =
                Some([x |-> mx, y |-> my, text |-> << >>, page |-> p])
           /\ after.textAnnotations = textAnnotations

EditedInOverlay ==
  /\ mode = "text"
  /\ \E field \in RenderedFields :
       /\ ~field.isReadOnly /\ field.type # "button"
       /\ DOMAIN formValues' = DOMAIN formValues \cup {field.name}
       /\ \A n \in DOMAIN formValues : n # field.name => formValues'[n] = formValues[n]
  /\ <<formFieldsInfo, boundingBoxes, textAnnotations>>' =
       <<formFieldsInfo, boundingBoxes, textAnnotations>>

StartedByIntrospection ==
  /\ file # None /\ formValues = NoValues
  /\ formValues' = DetectFormFields(Val(file)).value.formValues

EmptiedWithFile == file' = None /\ file # None /\ formValues' = NoValues

C30_ValuesChangeByEditOnly ==
  [][formValues' # formValues =>
       EditedInOverlay \/ StartedByIntrospection \/ EmptiedWithFile]_vars

====
